---- MODULE Spec2Model ----
(***************************************************************************)
(* Episode operations of the LeRobot dataset editor: delete an episode     *)
(* and renumber the rest, copy an episode under a new instruction, merge   *)
(* datasets, filter a dataset.                                             *)
(*                                                                         *)
(* The engine (dataset_editor/operations.py) and the command line          *)
(* (dataset_editor/cli.py) are translated from their code.  The metadata   *)
(* store (dataset_editor/metadata.py), the file manager                    *)
(* (dataset_editor/file_utils.py) and the merge and filter operations are  *)
(* not among the sources: they are modelled from sections 4.1 to 4.3 of    *)
(* the specification and from the way operations.py calls them.            *)
(*                                                                         *)
(* A file is keyed by its episode index: the path resolver maps an index   *)
(* to one path, so a slot of `data' or `videos' is one path on disk.       *)
(* File system and parquet I/O may fail; each failing point is a           *)
(* nondeterministic outcome of the step that performs the I/O.             *)
(***************************************************************************)
EXTENDS Integers, Sequences, FiniteSets, TLC

VARIABLES
    disk_info,      \* meta/info.json: the derived counters
    disk_episodes,  \* meta/episodes.jsonl: sequence of episode records
    disk_tasks,     \* meta/tasks.jsonl: sequence of task records
    data,           \* data/chunk-*/episode_*.parquet, by episode index
    videos,         \* videos/chunk-*/<camera>/episode_*.mp4, by camera and index
    mem_episodes,   \* MetadataManager: episode records in memory
    mem_tasks,      \* MetadataManager: task records in memory
    pc,             \* position inside the running engine operation
    op,             \* the running (or last) engine call and its locals
    cur,            \* loop variable of _renumber_episodes_after_deletion
    result,         \* return value of the last engine call
    cli,            \* the running command line invocation, if any
    exit_code,      \* exit status of the command line invocation that just ended
    out,            \* the output path of the running merge or filter call
    req,            \* the arguments of the running merge or filter call
    calls,          \* engine calls that reached their apply phase so far;
                    \* no call starts once MaxCalls of them have
    pre             \* history: the dataset as it was when the engine call began

vars == <<disk_info, disk_episodes, disk_tasks, data, videos, mem_episodes,
          mem_tasks, pc, op, cur, result, cli, exit_code, out, req, calls, pre>>

(***************************************************************************)
(* Bounds of the model.                                                    *)
(***************************************************************************)
MaxEpisodes == 3
MaxCalls == 2

EpisodeSlots == 0 .. (MaxEpisodes - 1)
IndexInputs == -1 .. MaxEpisodes
CliIndexInputs == {-1, 0, MaxEpisodes}
CliInstructions == {"", "C"}
Cameras == {"cam"}
InitialTexts == <<"A", "B">>
Instructions == {"", "A", "C"}

(***************************************************************************)
(* constants.py                                                            *)
(***************************************************************************)
DEFAULT_FRAME_LENGTH == -1
DEFAULT_TASK_LIST == << >>

(***************************************************************************)
(* Files.  content identifies the bytes other than the episode_index       *)
(* column; episode_index is the value the column holds in every row.       *)
(***************************************************************************)
NoFile == [exists |-> FALSE, content |-> 0, episode_index |-> 0, rows |-> 0]
DataFile(c, e, n) == [exists |-> TRUE, content |-> c, episode_index |-> e, rows |-> n]
NoVideo == [exists |-> FALSE, content |-> 0]
VideoFile(c) == [exists |-> TRUE, content |-> c]

(***************************************************************************)
(* Metadata store (spec 4.2).                                              *)
(***************************************************************************)
NoRecord == [found |-> FALSE, episode_index |-> 0, length |-> 0, tasks |-> << >>]
EpisodeRecord(i, n, t) == [found |-> TRUE, episode_index |-> i, length |-> n, tasks |-> t]

get_episode_count(episodes) == Len(episodes)

get_episode_metadata(episodes, index) ==
    LET hits == {k \in 1 .. Len(episodes) : episodes[k].episode_index = index}
    IN  IF hits = {} THEN NoRecord
        ELSE episodes[CHOOSE k \in hits : \A j \in hits : k <= j]

remove_episode(episodes, index) ==
    LET kept == SelectSeq(episodes, LAMBDA e : e.episode_index # index)
    IN  [k \in 1 .. Len(kept) |->
            IF kept[k].episode_index > index
            THEN [kept[k] EXCEPT !.episode_index = @ - 1]
            ELSE kept[k]]

add_episode(episodes, index, length, tasks) ==
    Append(episodes, EpisodeRecord(index, length, tasks))

add_or_get_task(tasks, text) ==
    IF \E k \in 1 .. Len(tasks) : tasks[k].task = text
    THEN tasks
    ELSE Append(tasks, [task_index |-> Len(tasks), task |-> text])

\* save_metadata: the counters of info.json are recomputed from the records.
saved_info(episodes, tasks) ==
    [total_episodes |-> Len(episodes), total_tasks |-> Len(tasks)]

(***************************************************************************)
(* File manager (spec 4.1, 4.3).  `failAt' is where the call raises:       *)
(* "none", "data" (before the data file is touched) or "videos" (the data  *)
(* file is done, no media file is).                                        *)
(***************************************************************************)
FailPoints == {"none", "data", "videos"}

\* A call can only fail on a file it touches.
CanFail(d, v, index, failAt) ==
    \/ failAt = "none"
    \/ failAt = "data" /\ d[index].exists
    \/ failAt = "videos" /\ \E c \in Cameras : v[c][index].exists

delete_data_file(d, index, failAt) ==
    IF failAt = "data" THEN d ELSE [d EXCEPT ![index] = NoFile]

delete_video_files(v, index, failAt) ==
    IF failAt = "none"
    THEN [c \in Cameras |-> [v[c] EXCEPT ![index] = NoVideo]]
    ELSE v

\* A rename moves the bytes unchanged; a source that does not exist is skipped.
rename_data_file(d, old, new, failAt) ==
    IF failAt = "data" \/ ~d[old].exists THEN d
    ELSE [d EXCEPT ![new] = d[old], ![old] = NoFile]

rename_video_files(v, old, new, failAt) ==
    IF failAt # "none" THEN v
    ELSE [c \in Cameras |->
            IF v[c][old].exists
            THEN [v[c] EXCEPT ![new] = v[c][old], ![old] = NoVideo]
            ELSE v[c]]

copy_data_file(d, src, tgt, failAt) ==
    IF failAt = "data" \/ ~d[src].exists THEN d
    ELSE [d EXCEPT ![tgt] = d[src]]

copy_video_files(v, src, tgt, failAt) ==
    IF failAt # "none" THEN v
    ELSE [c \in Cameras |->
            IF v[c][src].exists
            THEN [v[c] EXCEPT ![tgt] = v[c][src]]
            ELSE v[c]]

(***************************************************************************)
(* Engine: operations.py                                                   *)
(***************************************************************************)
InfoOutOfRange(episode_index, total_episodes) ==
    episode_index < 0 \/ episode_index >= total_episodes

\* get_episode_info: the record of the store, or the defaults when the
\* store has none.
get_episode_info(episodes, episode_index) ==
    LET meta == get_episode_metadata(episodes, episode_index)
    IN  IF meta.found
        THEN [episode_index |-> episode_index, length |-> meta.length,
              tasks |-> meta.tasks]
        ELSE [episode_index |-> episode_index, length |-> DEFAULT_FRAME_LENGTH,
              tasks |-> DEFAULT_TASK_LIST]

DeleteOutOfRange(episode_index, total_episodes) ==
    episode_index < 0 \/ episode_index >= total_episodes

CopyOutOfRange(source_episode_index, total_episodes) ==
    source_episode_index < 0 \/ source_episode_index >= total_episodes

NoOp == [name |-> "none", index |-> 0, instruction |-> "", dry_run |-> FALSE,
         total |-> 0, length |-> 0, target |-> 0]

Snapshot ==
    [taken |-> TRUE, mem_episodes |-> mem_episodes, mem_tasks |-> mem_tasks,
     disk_info |-> disk_info, disk_episodes |-> disk_episodes,
     disk_tasks |-> disk_tasks, data |-> data, videos |-> videos]

NoSnapshot ==
    [taken |-> FALSE, mem_episodes |-> << >>, mem_tasks |-> << >>,
     disk_info |-> saved_info(<< >>, << >>), disk_episodes |-> << >>,
     disk_tasks |-> << >>, data |-> [i \in EpisodeSlots |-> NoFile],
     videos |-> [c \in Cameras |-> [i \in EpisodeSlots |-> NoVideo]]]


\* Mutant: the loop runs from the last episode down, range reversed.
RenumberOrder_Descending(deleted_index, total_episodes) ==
    [k \in 1 .. (total_episodes - deleted_index - 1) |-> total_episodes - k]

\* Mutant: the loop stops one episode short, range(deleted + 1, total - 1).
RenumberOrder_StopsShort(deleted_index, total_episodes) ==
    [k \in 1 .. (total_episodes - deleted_index - 2) |-> deleted_index + k]

\* _renumber_episodes_after_deletion: the indices the loop visits, in order,
\* and the index each is moved to.
RenumberOrder(deleted_index, total_episodes) ==
    [k \in 1 .. (total_episodes - deleted_index - 1) |-> deleted_index + k]

RenumberNewIndex(current_index) == current_index - 1

\* Mutant: the metadata is removed and saved before the files are renumbered.
NextDeleteStep_SavesFirst(step, more) ==
    IF step = "delete_files" THEN "delete_metadata"
    ELSE IF step \in {"delete_metadata", "renumber"}
    THEN (IF more THEN "renumber" ELSE "cleanup")
    ELSE "return"

\* delete_episode, lines 99-118: the step that follows `step' when no
\* exception was raised; `more' says that the renumbering loop has
\* iterations left.
NextDeleteStep(step, more) ==
    IF step \in {"delete_files", "renumber"}
    THEN (IF more THEN "renumber" ELSE "delete_metadata")
    ELSE IF step = "delete_metadata" THEN "cleanup"
    ELSE "return"

\* Mutant: the call of remove_episode is left out.
DeleteUpdateMetadata_NotRemoved(episodes, episode_index) == episodes

\* Mutant: the last record is removed instead of the record of the episode.
DeleteUpdateMetadata_RemovesLast(episodes, episode_index) ==
    remove_episode(episodes, Len(episodes) - 1)

\* delete_episode, "Update metadata": what the store holds before the save.
DeleteUpdateMetadata(episodes, episode_index) ==
    remove_episode(episodes, episode_index)

\* Mutant: the task records no remaining episode refers to are pruned and
\* the rest renumbered.
DeleteUpdateTasks_Prunes(tasks, episodes) ==
    LET kept == SelectSeq(tasks, LAMBDA t :
                    \E k \in 1 .. Len(episodes) :
                        \E j \in 1 .. Len(episodes[k].tasks) :
                            episodes[k].tasks[j] = t.task)
    IN  [k \in 1 .. Len(kept) |-> [kept[k] EXCEPT !.task_index = k - 1]]

\* delete_episode, "Update metadata": no call touches the task records;
\* `episodes' are the records that remain.
DeleteUpdateTasks(tasks, episodes) == tasks

\* Mutant: the copy takes the index of the last episode, a duplicate.
CopyTargetIndex_LastIndex(total_episodes) == total_episodes - 1

\* copy_episode_with_new_instruction: target_index = total_episodes.
CopyTargetIndex(total_episodes) == total_episodes

\* Mutant: a task record is appended without looking for the text.
CopyUpdateTasks_AlwaysAppends(tasks, new_instruction) ==
    Append(tasks, [task_index |-> Len(tasks), task |-> new_instruction])

\* copy_episode_with_new_instruction, "Add new task and update metadata".
CopyUpdateTasks(tasks, new_instruction) ==
    add_or_get_task(tasks, new_instruction)

\* Mutant: the new record does not carry the length of the source.
CopyUpdateEpisodes_NoLength(episodes, target_index, source_length, new_instruction) ==
    add_episode(episodes, target_index, DEFAULT_FRAME_LENGTH, <<new_instruction>>)

CopyUpdateEpisodes(episodes, target_index, source_length, new_instruction) ==
    add_episode(episodes, target_index, source_length, <<new_instruction>>)

\* _update_episode_indices_in_parquet, when the read and the write succeed.
update_episode_indices_in_parquet(file, new_episode_index) ==
    [file EXCEPT !.episode_index = new_episode_index]

\* Mutant: the dry-run flag is ignored.
DryRunReturns_Ignored(dry_run) == FALSE

\* if dry_run: show and return True.
DryRunReturns(dry_run) == dry_run

(***************************************************************************)
(* Command line: cli.py                                                    *)
(***************************************************************************)
NoCli == [stage |-> "none", path |-> "dataset", has_episode |-> FALSE,
          episode |-> 0, show_data |-> FALSE, has_list |-> FALSE, list |-> 0, list_start |-> 0,
          has_delete |-> FALSE, delete |-> 0,
          has_copy |-> FALSE, copy |-> 0, instruction |-> "", dry_run |-> FALSE,
          gui |-> FALSE, summary |-> FALSE, ran |-> << >>]

\* What _validate_dataset_structure looks at in the directory a path names.
\* "dataset" is the dataset of this model; each other path names a
\* directory that lacks one thing.
Directory(path) ==
    [exists |-> path # "nonexistent",
     meta_dir |-> path \notin {"nonexistent", "no_meta_dir"},
     data_dir |-> path \notin {"nonexistent", "no_data_dir"},
     info_json |-> path \notin {"nonexistent", "no_meta_dir", "no_info_json"},
     episodes_jsonl |-> path \notin {"nonexistent", "no_meta_dir", "no_episodes_jsonl"},
     tasks_jsonl |-> path \notin {"nonexistent", "no_meta_dir", "no_tasks_jsonl"},
     info_parses |-> path \notin {"nonexistent", "no_meta_dir", "no_info_json",
                                  "info_unparsable"},
     total_episodes |-> path \notin {"nonexistent", "no_meta_dir", "no_info_json",
                                     "info_unparsable", "info_no_total_episodes"},
     robot_type |-> path \notin {"nonexistent", "no_meta_dir", "no_info_json",
                                 "info_unparsable", "info_no_robot_type"}]

BrokenPaths == {"nonexistent", "no_meta_dir", "no_data_dir", "no_info_json",
                "no_episodes_jsonl", "no_tasks_jsonl", "info_unparsable",
                "info_no_total_episodes", "info_no_robot_type"}

\* The command lines tried: --delete alone, --copy alone (with or without an
\* instruction), and --delete together with --copy, all on the dataset;
\* then "--delete 0" on each broken path and with each display option, and
\* "--gui --delete 0 --copy 0 --instruction C".  The command lines with
\* --delete and --copy also have --summary, --list 1 and --episode 0.  An
\* option that is not given has has_* = FALSE and a value of 0 or "";
\* --list-start defaults to 0.
CliArgs ==
    LET Plain == [NoCli EXCEPT !.stage = "start"]
        DeleteOnly ==
            {[Plain EXCEPT !.has_delete = TRUE, !.delete = i, !.dry_run = d] :
                i \in CliIndexInputs, d \in BOOLEAN}
        CopyOnly ==
            {[Plain EXCEPT !.has_copy = TRUE, !.copy = i, !.instruction = t,
                           !.dry_run = d] :
                i \in CliIndexInputs, t \in CliInstructions, d \in BOOLEAN}
        Both ==
            {[Plain EXCEPT !.summary = TRUE, !.has_list = TRUE, !.list = 1,
                           !.has_episode = TRUE,
                           !.has_delete = TRUE, !.delete = i, !.has_copy = TRUE,
                           !.instruction = "C", !.dry_run = d] :
                i \in {0, MaxEpisodes}, d \in BOOLEAN}
        Delete0 == [Plain EXCEPT !.has_delete = TRUE]
        Broken == {[Delete0 EXCEPT !.path = p] : p \in BrokenPaths}
        Episode == {[Delete0 EXCEPT !.has_episode = TRUE, !.episode = i] :
                        i \in CliIndexInputs}
        List == {[Delete0 EXCEPT !.has_list = TRUE, !.list = n] : n \in {-1, 0, 1}}
        ListStart == {[Delete0 EXCEPT !.list_start = n] : n \in {-1, 1}}
        EpisodeOnly ==
            {[Plain EXCEPT !.has_episode = TRUE, !.show_data = d] : d \in BOOLEAN}
        Gui == {[Delete0 EXCEPT !.gui = TRUE, !.has_copy = TRUE,
                                !.instruction = "C"]}
    IN  DeleteOnly \cup CopyOnly \cup Both \cup Broken \cup Episode \cup List
        \cup ListStart \cup EpisodeOnly \cup Gui

\* Mutant: only the two directories are looked for.
validate_dataset_structure_DirsOnly(d) == d.meta_dir /\ d.data_dir

\* _validate_dataset_structure: directories, metadata files, info.json.
validate_dataset_structure(d) ==
    /\ d.meta_dir /\ d.data_dir
    /\ d.info_json /\ d.episodes_jsonl /\ d.tasks_jsonl
    /\ d.info_parses
    /\ d.total_episodes /\ d.robot_type

\* validate_args: the path, the structure, --copy/--instruction, negative
\* indices, the list parameters.  An instruction that is missing and one
\* that is empty are both falsy.
validate_args(a) ==
    /\ Directory(a.path).exists
    /\ validate_dataset_structure(Directory(a.path))
    /\ ~(a.has_copy /\ a.instruction = "")
    /\ ~(a.has_episode /\ a.episode < 0)
    /\ ~(a.has_delete /\ a.delete < 0)
    /\ ~(a.has_copy /\ a.copy < 0)
    /\ ~(a.has_list /\ a.list <= 0)
    /\ a.list_start >= 0

\* Mutant: the result of the engine call is not looked at.
ExitAfter_AlwaysZero(success) == 0

\* execute_command: "if not success: return 1".
ExitAfter(success) == IF success THEN 0 ELSE 1

(***************************************************************************)
(* Arguments and output of merge and filter (spec 4.3).                    *)
(***************************************************************************)
Features == {"action", "observation.state"}

NoOutput == [exists |-> FALSE, episodes |-> << >>, tasks |-> << >>,
             info |-> saved_info(<< >>, << >>), features |-> {},
             frames |-> << >>]

\* A dataset given to merge as its second source.
NoDataset == [exists |-> FALSE, episodes |-> << >>, tasks |-> << >>]
Dataset(episodes, tasks) == [exists |-> TRUE, episodes |-> episodes, tasks |-> tasks]

OtherDatasets ==
    { NoDataset,
      Dataset(<<EpisodeRecord(0, 2, <<"A">>)>>, <<[task_index |-> 0, task |-> "A"]>>),
      Dataset(<<EpisodeRecord(0, 2, <<"D">>), EpisodeRecord(1, 3, <<"A">>)>>,
              <<[task_index |-> 0, task |-> "D"], [task_index |-> 1, task |-> "A"]>>) }

\* --task-mapping: a substitution of one instruction text, or none.
NoMapping == [given |-> FALSE, from |-> "", to |-> ""]
TaskMappings == {NoMapping, [given |-> TRUE, from |-> "D", to |-> "A"]}

\* --filter-include / --filter-exclude: the named feature columns, if given;
\* "gripper" is a name the dataset has no column for.
NoNames == [given |-> FALSE, names |-> {}]
FeatureOptions == {NoNames, [given |-> TRUE, names |-> {"action", "gripper"}]}

\* --filter-frames: absent, "start:end", or text that is not a range.
NoRange == [kind |-> "none", start |-> 0, end |-> 0]
FrameRanges == {NoRange,
                [kind |-> "range", start |-> 1, end |-> 3],
                [kind |-> "range", start |-> 3, end |-> 1],
                [kind |-> "malformed", start |-> 0, end |-> 0]}

NoRequest == [other |-> NoDataset, mapping |-> NoMapping, include |-> NoNames,
              exclude |-> NoNames, range |-> NoRange]

(***************************************************************************)
(* Initial state: a consistent dataset of n episodes whose data files all  *)
(* exist; the media files of episode 0 may be missing.  Episode k carries  *)
(* task k mod 2, as in the sample dataset of tests/conftest.py.            *)
(***************************************************************************)
InitLength(k) == 4 + k

TaskRecords(texts) == [k \in 1 .. Len(texts) |-> [task_index |-> k - 1, task |-> texts[k]]]

Init ==
    \E n \in 0 .. MaxEpisodes :
        /\ \E missing \in {-1, 0} :
            /\ missing < n
            /\ disk_episodes =
                  [k \in 1 .. n |->
                      EpisodeRecord(k - 1, InitLength(k - 1),
                                    <<InitialTexts[((k - 1) % 2) + 1]>>)]
            /\ disk_tasks = TaskRecords(IF n = 0 THEN << >> ELSE InitialTexts)
            /\ disk_info = saved_info(disk_episodes, disk_tasks)
            /\ data = [i \in EpisodeSlots |->
                          IF i < n THEN DataFile(i, i, InitLength(i)) ELSE NoFile]
            /\ videos = [c \in Cameras |-> [i \in EpisodeSlots |->
                          IF i < n /\ i # missing THEN VideoFile(i) ELSE NoVideo]]
        /\ mem_episodes = disk_episodes
        /\ mem_tasks = disk_tasks
        /\ pc = "idle"
        /\ op = NoOp
        /\ cur = 0
        /\ result = "none"
        /\ cli = NoCli
        /\ exit_code = -1
        /\ out = NoOutput
        /\ req = NoRequest
        /\ calls = 0
        /\ pre = NoSnapshot

(***************************************************************************)
(* delete_episode                                                          *)
(***************************************************************************)
Fail == /\ result' = "False"
        /\ pc' = "return"

\* Lines 83-97: range check, get_episode_info, dry run.
delete_episode(episode_index, dry_run) ==
    LET total_episodes == get_episode_count(mem_episodes)
        rejected == \/ DeleteOutOfRange(episode_index, total_episodes)
                    \/ InfoOutOfRange(episode_index, total_episodes)
        applies == ~rejected /\ ~DryRunReturns(dry_run)
    IN
    /\ pc = "idle"
    /\ calls < MaxCalls
    /\ calls' = IF applies THEN calls + 1 ELSE calls
    /\ pre' = Snapshot
    /\ op' = [NoOp EXCEPT !.name = "delete", !.index = episode_index,
                          !.dry_run = dry_run, !.total = total_episodes]
    /\ IF rejected
       THEN Fail
       ELSE IF DryRunReturns(dry_run)
       THEN result' = "True" /\ pc' = "return"
       ELSE result' = "pending" /\ pc' = "delete_files"
    /\ cur' = 0
    /\ UNCHANGED <<disk_info, disk_episodes, disk_tasks, data, videos,
                   mem_episodes, mem_tasks, cli, exit_code, out, req>>

\* Lines 99-105: file_manager.delete_episode_files(paths).
DeleteFiles ==
    /\ pc = "delete_files"
    /\ \E failAt \in FailPoints :
        /\ CanFail(data, videos, op.index, failAt)
        /\ data' = delete_data_file(data, op.index, failAt)
        /\ videos' = delete_video_files(videos, op.index, failAt)
        /\ IF failAt = "none"
           THEN /\ result' = result
                /\ cur' = 1
                /\ pc' = NextDeleteStep(pc, cur' <= Len(RenumberOrder(op.index, op.total)))
           ELSE Fail /\ cur' = cur
    /\ UNCHANGED <<disk_info, disk_episodes, disk_tasks, mem_episodes,
                   mem_tasks, op, cli, exit_code, out, req, calls, pre>>

\* Lines 204-217: one iteration of the renumbering loop.
Renumber ==
    /\ pc = "renumber"
    /\ LET order == RenumberOrder(op.index, op.total)
           current_index == order[cur]
           new_index == RenumberNewIndex(current_index)
       IN  \E failAt \in FailPoints :
            /\ CanFail(data, videos, current_index, failAt)
            /\ data' = rename_data_file(data, current_index, new_index, failAt)
            /\ videos' = rename_video_files(videos, current_index, new_index, failAt)
            /\ IF failAt = "none"
               THEN /\ result' = result
                    /\ cur' = cur + 1
                    /\ pc' = NextDeleteStep(pc, cur' <= Len(order))
               ELSE Fail /\ cur' = cur
    /\ UNCHANGED <<disk_info, disk_episodes, disk_tasks, mem_episodes,
                   mem_tasks, op, cli, exit_code, out, req, calls, pre>>

\* Mutant: a save that raises has written episodes.jsonl already.
SaveMetadata_Partial(episodes, tasks, saved) ==
    IF saved
    THEN /\ disk_episodes' = episodes
         /\ disk_tasks' = tasks
         /\ disk_info' = saved_info(episodes, tasks)
    ELSE /\ disk_episodes' = episodes
         /\ UNCHANGED <<disk_info, disk_tasks>>

\* save_metadata: all three files are written, or the call raises and none is.
SaveMetadata(episodes, tasks, saved) ==
    IF saved
    THEN /\ disk_episodes' = episodes
         /\ disk_tasks' = tasks
         /\ disk_info' = saved_info(episodes, tasks)
    ELSE UNCHANGED <<disk_info, disk_episodes, disk_tasks>>

\* Lines 110-112: metadata.remove_episode, metadata.save_metadata.
DeleteMetadata ==
    /\ pc = "delete_metadata"
    /\ mem_episodes' = DeleteUpdateMetadata(mem_episodes, op.index)
    /\ mem_tasks' = DeleteUpdateTasks(mem_tasks, mem_episodes')
    /\ \E saved \in BOOLEAN :
        /\ SaveMetadata(mem_episodes', mem_tasks', saved)
        /\ IF saved
           THEN /\ result' = result
                /\ pc' = NextDeleteStep(pc, cur <= Len(RenumberOrder(op.index, op.total)))
           ELSE Fail
    /\ UNCHANGED <<data, videos, op, cur, cli, exit_code, out, req, calls, pre>>

\* Lines 114-118: cleanup_empty_directories, then return True.
DeleteCleanup ==
    /\ pc = "cleanup"
    /\ \E cleaned \in BOOLEAN :
        IF cleaned
        THEN result' = "True" /\ pc' = NextDeleteStep(pc, FALSE)
        ELSE Fail
    /\ UNCHANGED <<disk_info, disk_episodes, disk_tasks, data, videos,
                   mem_episodes, mem_tasks, op, cur, cli, exit_code, out, req, calls, pre>>

(***************************************************************************)
(* copy_episode_with_new_instruction                                       *)
(***************************************************************************)
\* Lines 136-151: range check, get_episode_info, target index, dry run.
copy_episode_with_new_instruction(source_episode_index, new_instruction, dry_run) ==
    LET total_episodes == get_episode_count(mem_episodes)
        source_info == get_episode_info(mem_episodes, source_episode_index)
        target_index == CopyTargetIndex(total_episodes)
        rejected == \/ CopyOutOfRange(source_episode_index, total_episodes)
                    \/ InfoOutOfRange(source_episode_index, total_episodes)
        applies == ~rejected /\ ~DryRunReturns(dry_run)
    IN
    /\ pc = "idle"
    /\ calls < MaxCalls
    /\ applies => total_episodes < MaxEpisodes
    /\ calls' = IF applies THEN calls + 1 ELSE calls
    /\ pre' = Snapshot
    /\ op' = [name |-> "copy", index |-> source_episode_index,
              instruction |-> new_instruction, dry_run |-> dry_run,
              total |-> total_episodes, length |-> source_info.length,
              target |-> target_index]
    /\ IF rejected
       THEN Fail
       ELSE IF DryRunReturns(dry_run)
       THEN result' = "True" /\ pc' = "return"
       ELSE result' = "pending" /\ pc' = "copy_files"
    /\ cur' = 0
    /\ UNCHANGED <<disk_info, disk_episodes, disk_tasks, data, videos,
                   mem_episodes, mem_tasks, cli, exit_code, out, req>>

\* Lines 153-162: file_manager.copy_episode_files(source_paths, target_paths).
CopyFiles ==
    /\ pc = "copy_files"
    /\ \E failAt \in FailPoints :
        /\ CanFail(data, videos, op.index, failAt)
        /\ data' = copy_data_file(data, op.index, op.target, failAt)
        /\ videos' = copy_video_files(videos, op.index, op.target, failAt)
        /\ IF failAt = "none"
           THEN result' = result /\ pc' = "update_parquet"
           ELSE Fail
    /\ UNCHANGED <<disk_info, disk_episodes, disk_tasks, mem_episodes,
                   mem_tasks, op, cur, cli, exit_code, out, req, calls, pre>>

\* Lines 164-166 and 219-233: the rewrite of the copied file's episode_index
\* column.  An exception of the read or of the write is caught inside
\* _update_episode_indices_in_parquet (a warning is printed) and the copy
\* goes on; a read that fails leaves the file as it was copied.
UpdateParquet ==
    /\ pc = "update_parquet"
    /\ \/ /\ data[op.target].exists
          /\ data' = [data EXCEPT ![op.target] =
                         update_episode_indices_in_parquet(@, op.target)]
       \/ /\ data[op.target].exists
          /\ data' = data
       \/ /\ ~data[op.target].exists
          /\ data' = data
    /\ pc' = "copy_metadata"
    /\ UNCHANGED <<disk_info, disk_episodes, disk_tasks, videos, mem_episodes,
                   mem_tasks, op, cur, result, cli, exit_code, out, req, calls, pre>>

\* Lines 168-178: add_or_get_task, add_episode, save_metadata, return True.
CopyMetadata ==
    /\ pc = "copy_metadata"
    /\ mem_tasks' = CopyUpdateTasks(mem_tasks, op.instruction)
    /\ mem_episodes' = CopyUpdateEpisodes(mem_episodes, op.target, op.length,
                                          op.instruction)
    /\ \E saved \in BOOLEAN :
        /\ SaveMetadata(mem_episodes', mem_tasks', saved)
        /\ IF saved THEN result' = "True" /\ pc' = "return" ELSE Fail
    /\ UNCHANGED <<data, videos, op, cur, cli, exit_code, out, req, calls, pre>>

(***************************************************************************)
(* merge and filter (spec 4.3).  Their code is not among the sources; both *)
(* are modelled from the specification.  Each reads its source datasets    *)
(* from disk and writes only below its output path, `out'.                 *)
(***************************************************************************)
\* The exit status of a merge or filter command: non-zero on an error.
CommandStatus(success) == IF success THEN 0 ELSE 1

ApplyMapping(mapping, text) ==
    IF mapping.given /\ text = mapping.from THEN mapping.to ELSE text

\* The texts in order of first occurrence.
RECURSIVE Deduplicate(_)
Deduplicate(texts) ==
    IF texts = << >> THEN << >>
    ELSE LET front == Deduplicate(SubSeq(texts, 1, Len(texts) - 1))
             last == texts[Len(texts)]
         IN  IF \E k \in 1 .. Len(front) : front[k] = last
             THEN front
             ELSE Append(front, last)

\* Mutant: the episodes of the second source come first.
MergedEpisodes_SecondFirst(first, second, mapping) ==
    LET all == second \o first
    IN  [k \in 1 .. Len(all) |->
            EpisodeRecord(k - 1, all[k].length,
                          [j \in 1 .. Len(all[k].tasks) |->
                              ApplyMapping(mapping, all[k].tasks[j])])]

\* Merge: the episodes of the sources in input order, renumbered 0 .. n-1,
\* their instructions mapped.
MergedEpisodes(first, second, mapping) ==
    LET all == first \o second
    IN  [k \in 1 .. Len(all) |->
            EpisodeRecord(k - 1, all[k].length,
                          [j \in 1 .. Len(all[k].tasks) |->
                              ApplyMapping(mapping, all[k].tasks[j])])]

\* Mutant: the texts are deduplicated first and mapped afterwards.
MergedTasks_MapsAfter(first, second, mapping) ==
    LET all == first \o second
        unique == Deduplicate([k \in 1 .. Len(all) |-> all[k].task])
    IN  TaskRecords([k \in 1 .. Len(unique) |-> ApplyMapping(mapping, unique[k])])

\* Merge: the mapped task texts of the sources, deduplicated and renumbered.
MergedTasks(first, second, mapping) ==
    LET all == first \o second
    IN  TaskRecords(Deduplicate([k \in 1 .. Len(all) |->
                                    ApplyMapping(mapping, all[k].task)]))

\* Mutant: the source paths are not looked at.
MergeRejected_Never(other) == FALSE

\* Merge: a source dataset path that does not exist.
MergeRejected(other) == ~other.exists

MergeDryRun(dry_run) == dry_run

merge_datasets(other, mapping, dry_run) ==
    /\ pc = "idle"
    /\ calls < MaxCalls
    /\ Len(disk_episodes) + Len(other.episodes) <= MaxEpisodes + 1
    /\ pre' = Snapshot
    /\ op' = [NoOp EXCEPT !.name = "merge", !.dry_run = dry_run,
                          !.total = Len(disk_episodes)]
    /\ req' = [NoRequest EXCEPT !.other = other, !.mapping = mapping]
    /\ IF MergeRejected(other)
       THEN Fail /\ out' = out
       ELSE IF MergeDryRun(dry_run)
       THEN result' = "True" /\ pc' = "return" /\ out' = out
       ELSE /\ result' = "True"
            /\ pc' = "return"
            /\ LET episodes == MergedEpisodes(disk_episodes, other.episodes, mapping)
                   tasks == MergedTasks(disk_tasks, other.tasks, mapping)
               IN  out' = [exists |-> TRUE, episodes |-> episodes, tasks |-> tasks,
                           info |-> saved_info(episodes, tasks),
                           features |-> Features,
                           frames |-> [k \in 1 .. Len(episodes) |->
                                          0 .. (episodes[k].length - 1)]]
    /\ exit_code' = CommandStatus(result' = "True")
    /\ UNCHANGED <<disk_info, disk_episodes, disk_tasks, data, videos,
                   mem_episodes, mem_tasks, cur, cli, calls>>

\* Mutant: include and exclude may be given together.
FilterRejected_BothAllowed(include, exclude, range) ==
    \/ range.kind = "malformed"
    \/ range.kind = "range" /\ range.end < range.start

\* Filter: MutuallyExclusiveOptions and InvalidRange.
FilterRejected(include, exclude, range) ==
    \/ include.given /\ exclude.given
    \/ range.kind = "malformed"
    \/ range.kind = "range" /\ range.end < range.start

\* Mutant: with include, the listed names are written as they were given.
SurvivingFeatures_AsListed(include, exclude) ==
    IF include.given THEN include.names
    ELSE IF exclude.given THEN Features \ exclude.names
    ELSE Features

\* Filter: the feature columns that survive the projection.
SurvivingFeatures(include, exclude) ==
    IF include.given THEN Features \cap include.names
    ELSE IF exclude.given THEN Features \ exclude.names
    ELSE Features

\* Mutant: the end of the range is taken as inclusive.
SurvivingFrames_EndInclusive(length, range) ==
    IF range.kind = "range"
    THEN {f \in 0 .. (length - 1) : range.start <= f /\ f <= range.end}
    ELSE 0 .. (length - 1)

\* Filter: the frame indices of an episode that survive the slice start:end.
SurvivingFrames(length, range) ==
    IF range.kind = "range"
    THEN {f \in 0 .. (length - 1) : range.start <= f /\ f < range.end}
    ELSE 0 .. (length - 1)

FilterDryRun(dry_run) == dry_run

filter_dataset(include, exclude, range, dry_run) ==
    /\ pc = "idle"
    /\ calls < MaxCalls
    /\ pre' = Snapshot
    /\ op' = [NoOp EXCEPT !.name = "filter", !.dry_run = dry_run,
                          !.total = Len(disk_episodes)]
    /\ req' = [NoRequest EXCEPT !.include = include, !.exclude = exclude,
                                !.range = range]
    /\ IF FilterRejected(include, exclude, range)
       THEN Fail /\ out' = out
       ELSE IF FilterDryRun(dry_run)
       THEN result' = "True" /\ pc' = "return" /\ out' = out
       ELSE /\ result' = "True"
            /\ pc' = "return"
            /\ out' = [exists |-> TRUE, episodes |-> disk_episodes,
                       tasks |-> disk_tasks,
                       info |-> saved_info(disk_episodes, disk_tasks),
                       features |-> SurvivingFeatures(include, exclude),
                       frames |-> [k \in 1 .. Len(disk_episodes) |->
                                      SurvivingFrames(disk_episodes[k].length, range)]]
    /\ exit_code' = CommandStatus(result' = "True")
    /\ UNCHANGED <<disk_info, disk_episodes, disk_tasks, data, videos,
                   mem_episodes, mem_tasks, cur, cli, calls>>

(***************************************************************************)
(* Callers.  A library caller works on one DatasetOperations object and    *)
(* may reload it; a command line invocation builds a fresh editor, which   *)
(* loads the metadata from disk, and runs delete before copy.              *)
(***************************************************************************)
ApiDelete ==
    /\ cli.stage = "none"
    /\ \E episode_index \in IndexInputs, dry_run \in BOOLEAN :
        delete_episode(episode_index, dry_run)

ApiCopy ==
    /\ cli.stage = "none"
    /\ \E source \in IndexInputs, text \in Instructions, dry_run \in BOOLEAN :
        copy_episode_with_new_instruction(source, text, dry_run)

ApiMerge ==
    /\ cli.stage = "none"
    /\ \E other \in OtherDatasets, mapping \in TaskMappings, dry_run \in BOOLEAN :
        merge_datasets(other, mapping, dry_run)

ApiFilter ==
    /\ cli.stage = "none"
    /\ \E include \in FeatureOptions, exclude \in FeatureOptions,
          range \in FrameRanges, dry_run \in BOOLEAN :
        filter_dataset(include, exclude, range, dry_run)

\* reload_metadata, or a new DatasetOperations on the same directory.
ReloadMetadata ==
    /\ pc = "idle"
    /\ cli.stage = "none"
    /\ mem_episodes' = disk_episodes
    /\ mem_tasks' = disk_tasks
    /\ UNCHANGED <<disk_info, disk_episodes, disk_tasks, data, videos, pc, op,
                   cur, result, cli, exit_code, out, req, calls, pre>>

\* Mutant: the copy is run before the delete.
StageFrom_CopyFirst(a, delete_done) ==
    IF a.has_copy THEN "copy"
    ELSE IF a.has_delete /\ ~delete_done THEN "delete"
    ELSE "exit"

\* execute_command: the stage that runs next, delete before copy.
StageFrom(a, delete_done) ==
    IF a.has_delete /\ ~delete_done THEN "delete"
    ELSE IF a.has_copy THEN "copy"
    ELSE "exit"

\* execute_command: the display options that are run, in the order of the
\* code: "if args.summary", "if args.list is not None", "if args.episode is
\* not None".
Displayed(a) ==
    (IF a.summary THEN <<"summary">> ELSE << >>)
        \o (IF a.has_list THEN <<"list">> ELSE << >>)
        \o (IF a.has_episode THEN <<"episode">> ELSE << >>)

\* DisplayFormatter.display_episode: the existence flags are printed; the
\* only ValueError is that of a data sample that was asked for, of a file
\* that exists, and could not be read.
display_episode_raises(episode_info, show_data_sample, readable) ==
    show_data_sample /\ episode_info.data_exists /\ ~readable

\* execute_command, "if args.episode is not None": get_episode_info raises
\* ValueError for an index out of range, display_episode for a sample it
\* cannot read, and the command returns 1.
DisplayFails(a, total_episodes, d, readable) ==
    /\ a.has_episode
    /\ \/ InfoOutOfRange(a.episode, total_episodes)
       \/ display_episode_raises([data_exists |-> d[a.episode].exists],
                                 a.show_data, readable)

\* Mutant: the viewer is launched and the other options are run as well.
RunsViewerOnly_NotExclusive(a) == FALSE

\* execute_command: "if args.gui: return self._handle_gui_launch(args,
\* editor)", before any other option is looked at.
RunsViewerOnly(a) == a.gui

\* _handle_gui_launch: 0 when launch_episode_viewer returns, 1 when the
\* import or the launch raises.
handle_gui_launch(launched) == IF launched THEN 0 ELSE 1

\* run: validate_args, then execute_command builds the editor, launches the
\* viewer if asked to, or else runs the display options and goes on to the
\* edit operations.
CLIRun ==
    /\ pc = "idle"
    /\ cli.stage = "none"
    /\ calls < MaxCalls
    /\ \E a \in CliArgs :
        IF validate_args(a)
        THEN /\ mem_episodes' = disk_episodes
             /\ mem_tasks' = disk_tasks
             /\ IF RunsViewerOnly(a)
                THEN \E launched \in BOOLEAN :
                        /\ cli' = [a EXCEPT !.stage = "exit"]
                        /\ exit_code' = handle_gui_launch(launched)
                        /\ pre' = Snapshot
                ELSE \E readable \in BOOLEAN :
                        /\ pre' = pre
                        /\ IF DisplayFails(a, get_episode_count(mem_episodes'),
                                           data, readable)
                           THEN /\ cli' = [a EXCEPT !.stage = "exit",
                                                    !.ran = Displayed(a)]
                                /\ exit_code' = 1
                           ELSE /\ cli' = [a EXCEPT !.stage = StageFrom(a, FALSE),
                                                    !.ran = Displayed(a)]
                                /\ exit_code' = IF StageFrom(a, FALSE) = "exit"
                                                THEN 0 ELSE exit_code
        ELSE /\ cli' = [a EXCEPT !.stage = "exit"]
             /\ exit_code' = 1
             /\ UNCHANGED <<mem_episodes, mem_tasks, pre>>
    /\ UNCHANGED <<disk_info, disk_episodes, disk_tasks, data, videos, pc, op,
                   cur, result, out, req, calls>>

\* execute_command: "if args.delete is not None".
CLIDelete ==
    /\ cli.stage = "delete"
    /\ delete_episode(cli.delete, cli.dry_run)

\* execute_command: "if args.copy is not None".
CLICopy ==
    /\ cli.stage = "copy"
    /\ copy_episode_with_new_instruction(cli.copy, cli.instruction, cli.dry_run)

\* The engine call returns to a library caller.
ApiReturn ==
    /\ pc = "return"
    /\ cli.stage = "none"
    /\ pc' = "idle"
    /\ op' = NoOp
    /\ result' = "none"
    /\ pre' = NoSnapshot
    /\ out' = NoOutput
    /\ req' = NoRequest
    /\ exit_code' = -1
    /\ UNCHANGED <<disk_info, disk_episodes, disk_tasks, data, videos,
                   mem_episodes, mem_tasks, cur, cli, calls>>

\* execute_command: "success = editor.delete_episode(...); if not success:
\* return 1", the same for copy, and "return 0" when nothing is left to run.
CLIReturn ==
    /\ pc = "return"
    /\ cli.stage \in {"delete", "copy"}
    /\ pc' = "idle"
    /\ IF ExitAfter(result = "True") # 0
       THEN /\ cli' = [cli EXCEPT !.stage = "exit", !.ran = Append(@, cli.stage)]
            /\ exit_code' = ExitAfter(result = "True")
            /\ UNCHANGED <<op, result, pre>>
       ELSE IF StageFrom(cli, cli.stage = "delete") = "exit" \/ cli.stage = "copy"
       THEN /\ cli' = [cli EXCEPT !.stage = "exit", !.ran = Append(@, cli.stage)]
            /\ exit_code' = 0
            /\ UNCHANGED <<op, result, pre>>
       ELSE /\ cli' = [cli EXCEPT !.stage = "copy", !.ran = Append(@, cli.stage)]
            /\ exit_code' = exit_code
            /\ op' = NoOp
            /\ result' = "none"
            /\ pre' = NoSnapshot
    /\ UNCHANGED <<disk_info, disk_episodes, disk_tasks, data, videos,
                   mem_episodes, mem_tasks, cur, out, req, calls>>

\* The process of the invocation ends.
CLIExit ==
    /\ cli.stage = "exit"
    /\ cli' = NoCli
    /\ exit_code' = -1
    /\ op' = NoOp
    /\ result' = "none"
    /\ pre' = NoSnapshot
    /\ UNCHANGED <<disk_info, disk_episodes, disk_tasks, data, videos,
                   mem_episodes, mem_tasks, pc, cur, out, req, calls>>

Next ==
    \/ ApiDelete \/ ApiCopy \/ ApiMerge \/ ApiFilter \/ ReloadMetadata
    \/ CLIRun \/ CLIDelete \/ CLICopy
    \/ DeleteFiles \/ Renumber \/ DeleteMetadata \/ DeleteCleanup
    \/ CopyFiles \/ UpdateParquet \/ CopyMetadata
    \/ ApiReturn \/ CLIReturn \/ CLIExit

Spec == Init /\ [][Next]_vars

(***************************************************************************)
(* The same program on a dataset whose episodes.jsonl skips an index: n    *)
(* records and n data files, no record with episode_index `gap'.  This is  *)
(* the state in which get_episode_metadata finds nothing for an index      *)
(* that passes the range check.                                            *)
(***************************************************************************)
InitGapped ==
    \E n \in 1 .. MaxEpisodes, gap \in EpisodeSlots :
        /\ gap < n
        /\ disk_episodes =
              [k \in 1 .. n |->
                  EpisodeRecord(IF k - 1 < gap THEN k - 1 ELSE k,
                                InitLength(k - 1),
                                <<InitialTexts[((k - 1) % 2) + 1]>>)]
        /\ disk_tasks = TaskRecords(InitialTexts)
        /\ disk_info = saved_info(disk_episodes, disk_tasks)
        /\ data = [i \in EpisodeSlots |->
                      IF i < n THEN DataFile(i, i, InitLength(i)) ELSE NoFile]
        /\ videos = [c \in Cameras |-> [i \in EpisodeSlots |->
                      IF i < n THEN VideoFile(i) ELSE NoVideo]]
        /\ mem_episodes = disk_episodes
        /\ mem_tasks = disk_tasks
        /\ pc = "idle"
        /\ op = NoOp
        /\ cur = 0
        /\ result = "none"
        /\ cli = NoCli
        /\ exit_code = -1
        /\ out = NoOutput
        /\ req = NoRequest
        /\ calls = 0
        /\ pre = NoSnapshot

SpecGapped == InitGapped /\ [][Next]_vars

(***************************************************************************)
(* Path resolver (spec 4.1) and the file moves of delete and copy on a     *)
(* dataset whose episode count is next to a chunk boundary.  Here `data'   *)
(* and `videos' are keyed by location <<chunk, index>> instead of by       *)
(* index, and cover the episodes of Window; the episodes below Window are  *)
(* never moved by an operation on an index of Window.  The number of       *)
(* episodes is disk_info.total_episodes.                                   *)
(***************************************************************************)
CHUNK_SIZE == 1000

Window == (CHUNK_SIZE - MaxEpisodes) .. (CHUNK_SIZE + MaxEpisodes - 1)

Chunks == {0, 1}

Locations == Chunks \X Window

\* data_path / media_paths: chunk-<index // chunk_size>/episode_<index>.
data_path(index) == <<index \div CHUNK_SIZE, index>>

\* Mutant: the file is renamed inside the directory it is in.
renumber_target_SameDirectory(current_index, new_index) ==
    <<data_path(current_index)[1], new_index>>

\* renumber_episode_files(current_index, new_index, video_features): the
\* location the files of current_index are moved to.
renumber_target(current_index, new_index) == data_path(new_index)

InitBoundary ==
    \E total \in (CHUNK_SIZE - MaxEpisodes + 1) .. (CHUNK_SIZE + MaxEpisodes) :
        /\ disk_info = [total_episodes |-> total, total_tasks |-> 2]
        /\ disk_episodes = << >>
        /\ disk_tasks = TaskRecords(InitialTexts)
        /\ data = [l \in Locations |->
                      IF l = data_path(l[2]) /\ l[2] < total
                      THEN DataFile(l[2], l[2], 4) ELSE NoFile]
        /\ videos = [c \in Cameras |-> [l \in Locations |->
                      IF l = data_path(l[2]) /\ l[2] < total
                      THEN VideoFile(l[2]) ELSE NoVideo]]
        /\ mem_episodes = << >>
        /\ mem_tasks = disk_tasks
        /\ pc = "idle"
        /\ op = NoOp
        /\ cur = 0
        /\ result = "none"
        /\ cli = NoCli
        /\ exit_code = -1
        /\ out = NoOutput
        /\ req = NoRequest
        /\ calls = 0
        /\ pre = NoSnapshot

\* delete_episode lines 83-105 on an index of Window: the files at the
\* location of the index are removed.
BoundaryDelete ==
    /\ pc = "idle"
    /\ calls < MaxCalls
    /\ \E episode_index \in Window :
        /\ ~DeleteOutOfRange(episode_index, disk_info.total_episodes)
        /\ op' = [NoOp EXCEPT !.name = "delete", !.index = episode_index,
                              !.total = disk_info.total_episodes]
        /\ data' = delete_data_file(data, data_path(episode_index), "none")
        /\ videos' = delete_video_files(videos, data_path(episode_index), "none")
    /\ pre' = Snapshot
    /\ calls' = calls + 1
    /\ cur' = 1
    /\ result' = "pending"
    /\ pc' = "renumber"
    /\ UNCHANGED <<disk_info, disk_episodes, disk_tasks, mem_episodes,
                   mem_tasks, cli, exit_code, out, req>>

\* Lines 204-217 and 110-118: one iteration of the renumbering loop, or,
\* the loop over, the count is saved and True returned.
BoundaryRenumber ==
    /\ pc = "renumber"
    /\ LET order == RenumberOrder(op.index, op.total)
       IN  IF cur <= Len(order)
           THEN LET current_index == order[cur]
                    new_index == RenumberNewIndex(current_index)
                IN  /\ data' = rename_data_file(data, data_path(current_index),
                                    renumber_target(current_index, new_index), "none")
                    /\ videos' = rename_video_files(videos, data_path(current_index),
                                    renumber_target(current_index, new_index), "none")
                    /\ cur' = cur + 1
                    /\ UNCHANGED <<disk_info, result, pc>>
           ELSE /\ disk_info' = [disk_info EXCEPT !.total_episodes = op.total - 1]
                /\ result' = "True"
                /\ pc' = "return"
                /\ UNCHANGED <<data, videos, cur>>
    /\ UNCHANGED <<disk_episodes, disk_tasks, mem_episodes, mem_tasks, op,
                   cli, exit_code, out, req, calls, pre>>

\* copy_episode_with_new_instruction lines 135-176 on a source of Window:
\* the files are copied to the location of the target index.
BoundaryCopy ==
    /\ pc = "idle"
    /\ calls < MaxCalls
    /\ CopyTargetIndex(disk_info.total_episodes) \in Window
    /\ \E source_episode_index \in Window :
        /\ ~CopyOutOfRange(source_episode_index, disk_info.total_episodes)
        /\ op' = [NoOp EXCEPT !.name = "copy", !.index = source_episode_index,
                              !.total = disk_info.total_episodes,
                              !.target = CopyTargetIndex(disk_info.total_episodes)]
        /\ data' = copy_data_file(data, data_path(source_episode_index),
                                  data_path(op'.target), "none")
        /\ videos' = copy_video_files(videos, data_path(source_episode_index),
                                      data_path(op'.target), "none")
    /\ disk_info' = [disk_info EXCEPT !.total_episodes = @ + 1]
    /\ pre' = Snapshot
    /\ calls' = calls + 1
    /\ result' = "True"
    /\ pc' = "return"
    /\ UNCHANGED <<disk_episodes, disk_tasks, mem_episodes, mem_tasks, cur,
                   cli, exit_code, out, req>>

BoundaryReturn ==
    /\ pc = "return"
    /\ pc' = "idle"
    /\ op' = NoOp
    /\ cur' = 0
    /\ result' = "none"
    /\ pre' = NoSnapshot
    /\ UNCHANGED <<disk_info, disk_episodes, disk_tasks, data, videos,
                   mem_episodes, mem_tasks, cli, exit_code, out, req, calls>>

NextBoundary ==
    \/ BoundaryDelete
    \/ BoundaryRenumber
    \/ BoundaryCopy
    \/ BoundaryReturn

SpecBoundary == InitBoundary /\ [][NextBoundary]_vars


(***************************************************************************)
(* Properties.  The state in which an engine call has just returned is    *)
(* pc = "return": op holds the call, result its return value and pre the   *)
(* dataset as the call found it.                                           *)
(***************************************************************************)
Returned(name) == pc = "return" /\ op.name = name

OpOutOfRange == op.index < 0 \/ op.index >= op.total

DeleteSucceeded == Returned("delete") /\ ~op.dry_run /\ result = "True"

CopySucceeded == Returned("copy") /\ ~op.dry_run /\ result = "True"

\* The records are numbered 0 .. n-1 in order.
Contiguous(episodes) ==
    \A k \in 1 .. Len(episodes) : episodes[k].episode_index = k - 1

\* Data and media files exist for exactly the indices 0 .. n-1.
FilesExactly(d, v, n) ==
    \A k \in EpisodeSlots :
        /\ d[k].exists <=> k < n
        /\ \A c \in Cameras : v[c][k].exists <=> k < n

SameBytes(f, g) == f.exists /\ g.exists /\ f.content = g.content /\ f.rows = g.rows

DatasetUnchanged ==
    /\ disk_info = pre.disk_info
    /\ disk_episodes = pre.disk_episodes
    /\ disk_tasks = pre.disk_tasks
    /\ data = pre.data
    /\ videos = pre.videos
    /\ mem_episodes = pre.mem_episodes
    /\ mem_tasks = pre.mem_tasks

\* C1: a successful delete_episode(i) on N episodes leaves N-1 episode
\* records numbered 0 .. N-2 in order, on disk and in the store, and the
\* persisted total_episodes is N-1.
C1_DeleteCount ==
    DeleteSucceeded =>
        /\ Len(disk_episodes) = op.total - 1
        /\ Contiguous(disk_episodes)
        /\ disk_info.total_episodes = op.total - 1
        /\ get_episode_count(mem_episodes) = op.total - 1

C1_Witness ==
    DeleteSucceeded /\ op.total = MaxEpisodes /\ op.index = 0

\* C2: the persisted counters equal the numbers of records and the episode
\* indices are 0 .. n-1 in order, in every state (so after every sequence
\* of delete and copy calls, successful or not).
C2_MetadataConsistent ==
    /\ disk_info.total_episodes = Len(disk_episodes)
    /\ disk_info.total_tasks = Len(disk_tasks)
    /\ Contiguous(disk_episodes)

\* A copy succeeded after a delete of episode 0 had been persisted.
C2_Witness ==
    /\ CopySucceeded
    /\ calls = 2
    /\ Len(disk_episodes) = MaxEpisodes
    /\ disk_episodes[1].length = InitLength(1)
    /\ disk_tasks # pre.disk_tasks

\* C3: after a successful delete_episode(i) on N episodes whose files are
\* those of the indices 0 .. N-1, files exist for exactly 0 .. N-2; the
\* file at k >= i is the one that was at k+1 and the files below i are
\* as they were.
C3_DeleteFiles ==
    (DeleteSucceeded /\ FilesExactly(pre.data, pre.videos, op.total)) =>
        /\ FilesExactly(data, videos, op.total - 1)
        /\ \A k \in EpisodeSlots :
            /\ k < op.index =>
                /\ data[k] = pre.data[k]
                /\ \A c \in Cameras : videos[c][k] = pre.videos[c][k]
            /\ (op.index <= k /\ k < op.total - 1) =>
                /\ SameBytes(data[k], pre.data[k + 1])
                /\ \A c \in Cameras : videos[c][k] = pre.videos[c][k + 1]

C3_Witness ==
    /\ DeleteSucceeded
    /\ FilesExactly(pre.data, pre.videos, op.total)
    /\ op.total = MaxEpisodes
    /\ op.index = 1

\* C4 (as claimed): after a successful delete_episode(i) every remaining
\* data file holds, in its episode_index column, the index it is stored
\* under.
C4_RenumberedColumn ==
    (DeleteSucceeded /\ \A k \in EpisodeSlots :
                            pre.data[k].exists => pre.data[k].episode_index = k) =>
        \A k \in EpisodeSlots : data[k].exists => data[k].episode_index = k

\* C5: a successful copy of episode s on N episodes appends one record, at
\* index N, with the length of the source and the new instruction; the
\* count becomes N+1 and the records that existed are unchanged.
C5_CopyAppends ==
    CopySucceeded =>
        /\ Len(disk_episodes) = op.total + 1
        /\ disk_info.total_episodes = op.total + 1
        /\ SubSeq(disk_episodes, 1, op.total) = pre.mem_episodes
        /\ disk_episodes[op.total + 1] =
              EpisodeRecord(op.total,
                            get_episode_metadata(pre.mem_episodes, op.index).length,
                            <<op.instruction>>)
        /\ mem_episodes = disk_episodes

C5_Witness ==
    /\ CopySucceeded
    /\ op.total = 2
    /\ op.index = 0
    /\ op.instruction = "C"

\* C6 (as claimed): whenever a copy to index N reports success, the copied
\* data file holds N in its episode_index column, is otherwise the source
\* file, and the source file is as it was.
C6_CopiedColumn ==
    (CopySucceeded /\ pre.data[op.index].exists) =>
        /\ data[op.target].exists
        /\ data[op.target].episode_index = op.target
        /\ SameBytes(data[op.target], pre.data[op.index])
        /\ data[op.index] = pre.data[op.index]

\* C7: an operation run in dry-run mode (delete, copy, merge or filter)
\* writes nothing: when it returns, every file, every metadata record and
\* the stored counters are as the call found them and nothing exists at
\* the output path; a request that passes validation returns True.
RequestRejected ==
    \/ op.name \in {"delete", "copy"} /\ OpOutOfRange
    \/ op.name = "merge" /\ MergeRejected(req.other)
    \/ op.name = "filter" /\ FilterRejected(req.include, req.exclude, req.range)

C7_DryRun ==
    (pc = "return" /\ op.dry_run) =>
        /\ DatasetUnchanged
        /\ ~out.exists
        /\ ~RequestRejected => result = "True"

C7_Witness ==
    /\ Returned("delete")
    /\ op.dry_run
    /\ op.index = 1
    /\ op.total = MaxEpisodes
    /\ result = "True"
    /\ DatasetUnchanged

\* C8: delete or copy with an index outside 0 .. count-1 returns False and
\* changes no file and no record; the command line then exits with 1, as
\* it does when it refuses a negative index itself.
C8_OutOfRange ==
    /\ (pc = "return" /\ op.name \in {"delete", "copy"} /\ OpOutOfRange) =>
          (result = "False" /\ DatasetUnchanged)
    /\ (cli.stage = "exit" /\ op.name \in {"delete", "copy"} /\ OpOutOfRange) =>
          (exit_code = 1 /\ DatasetUnchanged)
    /\ (cli.stage = "exit" /\ ((cli.has_delete /\ cli.delete < 0)
                              \/ (cli.has_copy /\ cli.copy < 0))) =>
          (exit_code = 1 /\ op = NoOp)

C8_Witness ==
    /\ cli.stage = "exit"
    /\ op.name = "copy"
    /\ op.index = 0
    /\ op.total = 0
    /\ exit_code = 1

\* C9: in a delete, while the removal of the target's files or the move of
\* a later episode's files has not been done, the metadata on disk is the
\* one the call found; a delete that returns in that condition returns False.
FilePhaseIncomplete == cur <= Len(RenumberOrder(op.index, op.total))

C9_PersistAfterMoves ==
    (op.name = "delete" /\ pc # "idle" /\ ~op.dry_run /\ ~OpOutOfRange
        /\ FilePhaseIncomplete) =>
        /\ disk_info = pre.disk_info
        /\ disk_episodes = pre.disk_episodes
        /\ disk_tasks = pre.disk_tasks
        /\ pc = "return" => result = "False"

\* A rename failed after an earlier episode had been moved.
C9_Witness ==
    /\ Returned("delete")
    /\ result = "False"
    /\ cur = 2
    /\ FilePhaseIncomplete
    /\ data # pre.data

\* C10: a successful delete_episode(i) removes the record of episode i
\* only: the record of each j > i is at j-1 with its length and tasks, the
\* records below i are unchanged, and so are the task records.
C10_DeleteRecords ==
    DeleteSucceeded =>
        /\ Len(disk_episodes) = Len(pre.mem_episodes) - 1
        /\ \A k \in 1 .. Len(disk_episodes) :
            IF k - 1 < op.index
            THEN disk_episodes[k] = pre.mem_episodes[k]
            ELSE disk_episodes[k] =
                    [pre.mem_episodes[k + 1] EXCEPT !.episode_index = k - 1]
        /\ disk_tasks = pre.mem_tasks
        /\ \A t \in Instructions \cup {InitialTexts[k] : k \in 1 .. Len(InitialTexts)} :
            Cardinality({k \in 1 .. Len(disk_episodes) : disk_episodes[k].tasks = <<t>>})
              = Cardinality({k \in 1 .. Len(pre.mem_episodes) :
                                /\ pre.mem_episodes[k].tasks = <<t>>
                                /\ pre.mem_episodes[k].episode_index # op.index})

C10_Witness ==
    /\ DeleteSucceeded
    /\ op.total = MaxEpisodes
    /\ op.index = 1
    /\ disk_episodes[2].length = InitLength(2)

\* C11: a successful copy whose instruction is the text of a task record
\* leaves the task records and total_tasks as they were; one whose
\* instruction matches no task appends exactly one task record, at index
\* total_tasks_before.  A second copy with the same new text therefore adds
\* no task.
TaskTexts(tasks) == {tasks[k].task : k \in 1 .. Len(tasks)}

C11_TaskResolution ==
    CopySucceeded =>
        /\ disk_info.total_tasks = Len(disk_tasks)
        /\ IF op.instruction \in TaskTexts(pre.mem_tasks)
           THEN disk_tasks = pre.mem_tasks
           ELSE disk_tasks = Append(pre.mem_tasks,
                                    [task_index |-> Len(pre.mem_tasks),
                                     task |-> op.instruction])

\* The second of two copies with the new text "C".
C11_Witness ==
    /\ CopySucceeded
    /\ calls = 2
    /\ op.instruction = "C"
    /\ "C" \in TaskTexts(pre.mem_tasks)
    /\ "C" \notin TaskTexts(TaskRecords(InitialTexts))
    /\ disk_tasks = pre.mem_tasks
    /\ Len(disk_tasks) = Len(InitialTexts) + 1

\* C12 (as claimed): a copy requested with a missing or empty instruction
\* is rejected before any file is copied and before any record is added:
\* the engine call returns False with the dataset as it found it, and the
\* command line exits with 1 without calling the engine.
C12_InstructionRequired ==
    /\ (op.name = "copy" /\ pc # "idle" /\ op.instruction = "") =>
          (pc = "return" /\ result = "False" /\ DatasetUnchanged)
    /\ (cli.stage = "exit" /\ cli.has_copy /\ cli.instruction = "") =>
          (exit_code = 1 /\ op = NoOp)

\* C13: delete_episode never removes or renumbers a task record.  When it
\* returns, the store holds the task records it held before and every
\* task record that was on disk is still there under its index; for a
\* store in step with the disk the task records and total_tasks on disk
\* are exactly those from before, also when a task is left with no
\* episode referring to it.
IsPrefix(s, t) == Len(s) <= Len(t) /\ SubSeq(t, 1, Len(s)) = s

C13_TasksKept ==
    Returned("delete") =>
        /\ mem_tasks = pre.mem_tasks
        /\ IsPrefix(pre.disk_tasks, disk_tasks)
        /\ disk_info.total_tasks = Len(disk_tasks)
        /\ pre.mem_tasks = pre.disk_tasks =>
              /\ disk_tasks = pre.disk_tasks
              /\ disk_info.total_tasks = pre.disk_info.total_tasks

\* Episode 1, the only one with task "B", was deleted: "B" is orphaned
\* and still recorded.
C13_Witness ==
    /\ DeleteSucceeded
    /\ op.total = 2
    /\ op.index = 1
    /\ pre.mem_tasks = pre.disk_tasks
    /\ "B" \in TaskTexts(disk_tasks)
    /\ \A k \in 1 .. Len(disk_episodes) : disk_episodes[k].tasks # <<"B">>

\* C14: a command line that fails argument validation (nonexistent path,
\* missing meta or data directory, missing metadata file, info.json
\* unparsable or without total_episodes or robot_type, --copy without
\* instruction, negative --episode, --delete or --copy, non-positive
\* --list, negative --list-start) ends with exit status 1: the step that
\* takes it up builds no editor, starts no operation and leaves every file
\* and record as it is.
ArgsRefused(a) ==
    \/ a.path \in {"nonexistent", "no_meta_dir", "no_data_dir"}
    \/ a.path \in {"no_info_json", "no_episodes_jsonl", "no_tasks_jsonl"}
    \/ a.path \in {"info_unparsable", "info_no_total_episodes", "info_no_robot_type"}
    \/ a.has_copy /\ a.instruction = ""
    \/ a.has_episode /\ a.episode < 0
    \/ a.has_delete /\ a.delete < 0
    \/ a.has_copy /\ a.copy < 0
    \/ a.has_list /\ a.list <= 0
    \/ a.list_start < 0

C14_ValidationFailure ==
    [][(cli'.stage # "none" /\ ArgsRefused(cli')) =>
          /\ cli.stage = "none"
          /\ cli'.stage = "exit"
          /\ exit_code' = 1
          /\ pc' = "idle"
          /\ op' = NoOp
          /\ UNCHANGED <<disk_info, disk_episodes, disk_tasks, data, videos,
                         mem_episodes, mem_tasks, out, calls>>]_vars

\* "--delete 0" on a directory whose info.json has no robot_type.
C14_Witness ==
    /\ cli.stage = "exit"
    /\ cli.path = "info_no_robot_type"
    /\ cli.has_delete
    /\ exit_code = 1
    /\ Len(disk_episodes) = MaxEpisodes
    /\ op = NoOp

\* C15: a merge of sources with E1 and E2 episodes writes E1+E2 episode
\* records numbered 0 .. E1+E2-1 in order; record k < E1 is episode k of
\* the first source and record E1+k is episode k of the second (its
\* length, its frames and its instructions, mapped).
MergeSucceeded == Returned("merge") /\ ~op.dry_run /\ result = "True"

MappedTexts(texts) == [j \in 1 .. Len(texts) |-> ApplyMapping(req.mapping, texts[j])]

C15_MergeOrder ==
    MergeSucceeded =>
        LET first == pre.disk_episodes
            second == req.other.episodes
            E1 == Len(first)
            E2 == Len(second)
        IN  /\ out.exists
            /\ Len(out.episodes) = E1 + E2
            /\ out.info.total_episodes = E1 + E2
            /\ Contiguous(out.episodes)
            /\ \A k \in 1 .. E1 :
                /\ out.episodes[k].length = first[k].length
                /\ out.episodes[k].tasks = MappedTexts(first[k].tasks)
                /\ out.frames[k] = 0 .. (first[k].length - 1)
            /\ \A k \in 1 .. E2 :
                /\ out.episodes[E1 + k].length = second[k].length
                /\ out.episodes[E1 + k].tasks = MappedTexts(second[k].tasks)
                /\ out.frames[E1 + k] = 0 .. (second[k].length - 1)

C15_Witness ==
    /\ MergeSucceeded
    /\ Len(pre.disk_episodes) = 2
    /\ Len(req.other.episodes) = 2
    /\ Len(out.episodes) = 4
    /\ out.episodes[3].length = req.other.episodes[1].length
    /\ out.episodes[3].length # pre.disk_episodes[1].length

\* C16: a merge one of whose source paths does not exist ends with an
\* error, exit status 1, with nothing at the output path and the sources
\* untouched.
C16_MergeMissingSource ==
    (Returned("merge") /\ ~req.other.exists) =>
        /\ result = "False"
        /\ exit_code = 1
        /\ ~out.exists
        /\ DatasetUnchanged

C16_Witness ==
    /\ Returned("merge")
    /\ ~req.other.exists
    /\ ~op.dry_run
    /\ Len(pre.disk_episodes) = MaxEpisodes
    /\ exit_code = 1

\* C17: the task records a merge writes have distinct texts and indices
\* 0 .. T-1; their texts are the mapped texts of the sources' tasks, so a
\* mapped-from text is not among them and source tasks that map to one
\* text are one task.
C17_MergeTasks ==
    MergeSucceeded =>
        LET sources == TaskTexts(pre.disk_tasks) \cup TaskTexts(req.other.tasks)
        IN  /\ \A j, k \in 1 .. Len(out.tasks) :
                  out.tasks[j].task = out.tasks[k].task => j = k
            /\ \A k \in 1 .. Len(out.tasks) : out.tasks[k].task_index = k - 1
            /\ out.info.total_tasks = Len(out.tasks)
            /\ TaskTexts(out.tasks) = {ApplyMapping(req.mapping, t) : t \in sources}
            /\ (req.mapping.given /\ req.mapping.from # req.mapping.to) =>
                  req.mapping.from \notin TaskTexts(out.tasks)

\* Sources with tasks A, B and D, A, merged with D mapped to A: D and both
\* A become the one task A.
C17_Witness ==
    /\ MergeSucceeded
    /\ req.mapping.given
    /\ "D" \in TaskTexts(req.other.tasks)
    /\ "A" \in TaskTexts(pre.disk_tasks)
    /\ Len(out.tasks) = 2
    /\ Len(pre.disk_tasks) + Len(req.other.tasks) = 4

\* C18: a filter given both an exclude list and an include list is
\* rejected with a validation error, exit status 1, and writes nothing to
\* the output path.
C18_FilterExclusive ==
    (Returned("filter") /\ req.include.given /\ req.exclude.given) =>
        /\ result = "False"
        /\ exit_code = 1
        /\ ~out.exists
        /\ DatasetUnchanged

C18_Witness ==
    /\ Returned("filter")
    /\ req.include.given
    /\ req.exclude.given
    /\ req.range = NoRange
    /\ ~op.dry_run
    /\ Len(pre.disk_episodes) = MaxEpisodes
    /\ exit_code = 1

\* C19: a filter with the frame range start:end writes, for each episode,
\* exactly the source frames f with start <= f < end; a range with
\* end < start and a text that is no range are rejected with a validation
\* error and nothing is written.
FilterSucceeded == Returned("filter") /\ ~op.dry_run /\ result = "True"

C19_FrameRange ==
    /\ (FilterSucceeded /\ req.range.kind = "range") =>
          \A k \in 1 .. Len(pre.disk_episodes) :
              /\ \A f \in out.frames[k] : req.range.start <= f /\ f < req.range.end
              /\ \A f \in 0 .. (pre.disk_episodes[k].length - 1) :
                    (req.range.start <= f /\ f < req.range.end) => f \in out.frames[k]
    /\ (Returned("filter") /\ (\/ req.range.kind = "malformed"
                                \/ (req.range.kind = "range"
                                    /\ req.range.end < req.range.start))) =>
          /\ result = "False"
          /\ exit_code = 1
          /\ ~out.exists
          /\ DatasetUnchanged

\* "1:3" on episodes of 4 and 5 frames: frames 1 and 2 of each.
C19_Witness ==
    /\ FilterSucceeded
    /\ req.range.kind = "range"
    /\ Len(pre.disk_episodes) = 2
    /\ out.frames[1] = {req.range.start, req.range.end - 1}
    /\ out.frames[2] = out.frames[1]
    /\ pre.disk_episodes[2].length > req.range.end

\* C20: after a feature filter the features of the destination are exactly
\* the surviving columns (include: the listed names that are columns of
\* the source; exclude: the columns of the source not listed), and the
\* destination has the episodes of the source, numbered 0 .. n-1.
C20_FilterFeatures ==
    FilterSucceeded =>
        /\ req.include.given =>
              out.features = {f \in Features : f \in req.include.names}
        /\ req.exclude.given =>
              out.features = {f \in Features : f \notin req.exclude.names}
        /\ (~req.include.given /\ ~req.exclude.given) => out.features = Features
        /\ Len(out.episodes) = Len(pre.disk_episodes)
        /\ out.info.total_episodes = Len(pre.disk_episodes)
        /\ Contiguous(out.episodes)

C20_Witness ==
    /\ FilterSucceeded
    /\ req.include.given
    /\ "gripper" \in req.include.names
    /\ out.features = {"action"}
    /\ Len(out.episodes) = MaxEpisodes


\* C21 (as claimed): a command line that asks for the details of an episode
\* the metadata lists and whose data file is not on disk ends with exit
\* status 1.
C21_MissingDataFile ==
    (/\ cli.stage = "exit"
     /\ cli.has_episode /\ ~cli.has_delete /\ ~cli.has_copy
     /\ 0 <= cli.episode /\ cli.episode < Len(disk_episodes)
     /\ ~data[cli.episode].exists) =>
        exit_code = 1


\* C22: the renumbering after delete_episode(i) visits i+1, i+2, ..., N-1
\* in that order, and when the files of episode j are about to be moved to
\* j-1 no data or media file exists at j-1: nothing is overwritten.
C22_AscendingRenumber ==
    pc = "renumber" =>
        LET current_index == RenumberOrder(op.index, op.total)[cur]
            new_index == RenumberNewIndex(current_index)
        IN  /\ current_index = op.index + cur
            /\ current_index < op.total
            /\ new_index = current_index - 1
            /\ ~data[new_index].exists
            /\ \A c \in Cameras : ~videos[c][new_index].exists

\* The second move of delete_episode(0) on MaxEpisodes episodes: episode 1
\* is at 0 already, episode 2 is about to go to 1.
C22_Witness ==
    /\ pc = "renumber"
    /\ op.index = 0
    /\ op.total = MaxEpisodes
    /\ cur = 2
    /\ SameBytes(data[0], pre.data[1])
    /\ ~data[1].exists
    /\ data[2].exists


\* C23: the three metadata files are written as one step.  In every
\* state info.json agrees with episodes.jsonl and tasks.jsonl on both
\* counts, and while a call runs or has just returned the three files are
\* either all as the call found them or all as the store holds them; this
\* includes the calls whose save raised.
MetadataOnDisk == <<disk_info, disk_episodes, disk_tasks>>

C24_AbsentRecord ==
    (/\ op.name \in {"delete", "copy"}
     /\ pc # "idle"
     /\ ~get_episode_metadata(pre.mem_episodes, op.index).found) =>
        /\ pc = "return"
        /\ result = "False"
        /\ DatasetUnchanged


C26_ViewerOnly ==
    cli.gui =>
        /\ cli.stage = "exit"
        /\ exit_code \in {0, 1}
        /\ pc = "idle"
        /\ op = NoOp
        /\ pre.taken
        /\ MetadataOnDisk = <<pre.disk_info, pre.disk_episodes, pre.disk_tasks>>
        /\ data = pre.data
        /\ videos = pre.videos

C26_Witness ==
    /\ cli.gui /\ cli.has_delete /\ cli.has_copy
    /\ cli.stage = "exit"
    /\ exit_code = 0
    /\ ~DeleteOutOfRange(cli.delete, Len(disk_episodes))


\* The actions a command line asks for, in the order summary, list, episode,
\* delete, copy.
Requested(a) ==
    (IF a.summary THEN <<"summary">> ELSE << >>)
        \o (IF a.has_list THEN <<"list">> ELSE << >>)
        \o (IF a.has_episode THEN <<"episode">> ELSE << >>)
        \o (IF a.has_delete THEN <<"delete">> ELSE << >>)
        \o (IF a.has_copy THEN <<"copy">> ELSE << >>)

\* C27: an invocation that passed validation and does not launch the viewer
\* runs the actions it was asked for in the order summary, list, episode,
\* delete, copy (cli.ran is the list of the actions run so far).  It ends
\* with 0 only when all of them were run and the last engine call returned
\* True; when it ends with 1 the action run last is the episode display, with
\* no engine call made, or the delete or copy that returned False, and
\* nothing was run after it.  A copy that follows a delete is evaluated on
\* the records the delete left: its count and target index are those of the
\* persisted, renumbered records.
C27_ActionOrder ==
    (cli.stage # "none" /\ ~cli.gui /\ validate_args(cli)) =>
        /\ IsPrefix(cli.ran, Requested(cli))
        /\ cli.stage \in {"delete", "copy"} =>
              cli.ran \o <<cli.stage>> \o (IF cli.stage = "delete" /\ cli.has_copy
                                           THEN <<"copy">> ELSE << >>)
                  = Requested(cli)
        /\ (cli.stage = "exit" /\ exit_code = 0) =>
              /\ cli.ran = Requested(cli)
              /\ result \in {"True", "none"}
        /\ (cli.stage = "exit" /\ exit_code # 0) =>
              /\ exit_code = 1
              /\ cli.ran # << >>
              /\ LET last == cli.ran[Len(cli.ran)]
                 IN  \/ last = "episode" /\ op = NoOp
                     \/ last \in {"delete", "copy"} /\ op.name = last
                            /\ result = "False"
        /\ (cli.stage = "exit" /\ result = "False") => exit_code = 1
        /\ (op.name = "copy" /\ cli.has_delete) =>
              /\ cli.ran[Len(cli.ran) - (IF cli.stage = "exit" THEN 1 ELSE 0)]
                    = "delete"
              /\ pre.mem_episodes = pre.disk_episodes
              /\ Contiguous(pre.disk_episodes)
              /\ op.total = Len(pre.disk_episodes)
              /\ ~op.dry_run => op.target = Len(pre.disk_episodes)

\* A delete and a copy both succeeded in one invocation, after the three
\* display actions.
C27_Witness ==
    /\ cli.stage = "exit" /\ exit_code = 0
    /\ cli.ran = <<"summary", "list", "episode", "delete", "copy">>
    /\ ~cli.dry_run
    /\ op.name = "copy" /\ result = "True"
    /\ op.target = Len(pre.disk_episodes)


\* C28 (as claimed): whenever a delete_episode that is not a dry run returns
\* False, the persisted metadata (info.json, episodes.jsonl, tasks.jsonl) is
\* what it was before the call, also when the step that failed comes after
\* the save.
C28_FalseMeansUnpersisted ==
    (Returned("delete") /\ ~op.dry_run /\ result = "False") =>
        MetadataOnDisk = <<pre.disk_info, pre.disk_episodes, pre.disk_tasks>>

\* C29 (as claimed): when delete_episode or copy_episode_with_new_instruction
\* returns, with True or with False, the records the DatasetOperations
\* object holds in memory, and so count_episodes(), are those on disk.
C29_MemoryIsDisk ==
    (pc = "return" /\ op.name \in {"delete", "copy"}) =>
        /\ mem_episodes = disk_episodes
        /\ mem_tasks = disk_tasks
        /\ get_episode_count(mem_episodes) = disk_info.total_episodes

\* C30 (as claimed): if data files existed for exactly the indices below the
\* persisted count when a delete or copy was called, then when it returns,
\* with True or with False, data files exist for exactly the indices below
\* the persisted count.
C30_FilesMatchCount ==
    (/\ pc = "return" /\ op.name \in {"delete", "copy"}
     /\ \A k \in EpisodeSlots :
            pre.data[k].exists <=> k < pre.disk_info.total_episodes) =>
        \A k \in EpisodeSlots : data[k].exists <=> k < disk_info.total_episodes

====
